---- MODULE Spec2Model ----
(***************************************************************************)
(* Model of src/ingestion.py: a linear CSV -> Neo4j ingestion script.      *)
(*                                                                         *)
(* A cell value is a sequence of text tokens.  A date cell is a sequence   *)
(* of one-character tokens (so that strptime can be modelled character by  *)
(* character); a key cell is a one-token sequence such as <<"V1">>.  The   *)
(* missing value (None / NaN after line 30) is the empty sequence.         *)
(*                                                                         *)
(* The graph store is modelled with Cypher's semantics for the statements  *)
(* the script issues: MATCH by label and property map, MERGE, SET n += map,*)
(* CREATE CONSTRAINT IF NOT EXISTS, one managed transaction per call of    *)
(* session.execute_write.                                                  *)
(***************************************************************************)
EXTENDS Integers, Sequences, FiniteSets, Bags, TLC

\* ------------------------------------------------------------------ bounds
MaxRows == 2
MaxChunk == 2
MaxRuns == 2

\* ------------------------------------------------------------------ values
Null == <<>>

K(s) == <<s>>

Cols == {"ID", "PODate", "MaterialCode", "MRNNumber", "MRNItemNumber",
         "WarehouseLocation", "VendorCode", "VendorName", "BusinessUnitCode"}

\* ------------------------------------------------------------ format_date
Digit == {"0", "1", "2", "3", "4", "5", "6", "7", "8", "9"}

DigitChar == <<"0", "1", "2", "3", "4", "5", "6", "7", "8", "9">>

DigitVal(c) == CHOOSE v \in 0..9 : DigitChar[v + 1] = c

\* str(date_str): None prints as the four characters "None".
Str(v) == IF v = Null THEN <<"N", "o", "n", "e">> ELSE v

At(s, p) == IF p >= 1 /\ p <= Len(s) THEN s[p] ELSE ""

NonZero(seq) == SelectSeq(seq, LAMBDA n : n > 0)

\* The alternatives of %m, in the regex's order: 1[0-2] | 0[1-9] | [1-9];
\* the lengths of those that match at position p.
MonthLens(s, p) ==
    NonZero(<< IF At(s, p) = "1" /\ At(s, p + 1) \in {"0", "1", "2"} THEN 2 ELSE 0,
               IF At(s, p) = "0" /\ At(s, p + 1) \in Digit \ {"0"} THEN 2 ELSE 0,
               IF At(s, p) \in Digit \ {"0"} THEN 1 ELSE 0 >>)

\* The alternatives of %d: 3[0-1] | [1-2]\d | 0[1-9] | [1-9] | " "[1-9].
DayLens(s, p) ==
    NonZero(<< IF At(s, p) = "3" /\ At(s, p + 1) \in {"0", "1"} THEN 2 ELSE 0,
               IF At(s, p) \in {"1", "2"} /\ At(s, p + 1) \in Digit THEN 2 ELSE 0,
               IF At(s, p) = "0" /\ At(s, p + 1) \in Digit \ {"0"} THEN 2 ELSE 0,
               IF At(s, p) \in Digit \ {"0"} THEN 1 ELSE 0,
               IF At(s, p) = " " /\ At(s, p + 1) \in Digit \ {"0"} THEN 2 ELSE 0 >>)

\* int() of the characters s[a..b]; a leading space is skipped as int() does.
RECURSIVE IntOf(_, _, _)
IntOf(s, a, b) ==
    IF a > b THEN 0
    ELSE IF s[b] = " " THEN 0
    ELSE IntOf(s, a, b - 1) * 10 + DigitVal(s[b])

IsLeap(y) == (y % 4 = 0 /\ y % 100 # 0) \/ y % 400 = 0

DaysInMonth(y, m) ==
    IF m = 2 THEN (IF IsLeap(y) THEN 29 ELSE 28)
    ELSE IF m \in {4, 6, 9, 11} THEN 30 ELSE 31

\* The regex match of "%Y%m%d" against s: the first match in the regex's
\* priority order (backtracking over %m only while %d finds nothing), as
\* [ok, y, m, d, end].  re.match is not anchored at the end.
StrptimeMatch(s) ==
    LET yearOk == \A p \in 1..4 : At(s, p) \in Digit
        ms == IF yearOk
              THEN SelectSeq(MonthLens(s, 5), LAMBDA ml : DayLens(s, 5 + ml) # <<>>)
              ELSE <<>>
    IN  IF ms = <<>> THEN [ok |-> FALSE, y |-> 0, m |-> 0, d |-> 0, end |-> 0]
        ELSE LET ml == Head(ms)
                 dl == Head(DayLens(s, 5 + ml))
             IN  [ok |-> TRUE,
                  y |-> IntOf(s, 1, 4),
                  m |-> IntOf(s, 5, 4 + ml),
                  d |-> IntOf(s, 5 + ml, 4 + ml + dl),
                  end |-> 4 + ml + dl]

\* datetime.strptime: ValueError (ok = FALSE) when the regex does not match,
\* when unconverted data remains, or when the date does not exist
\* (year 0 is below MINYEAR).
Strptime(s) ==
    LET r == StrptimeMatch(s)
    IN  IF r.ok /\ r.end = Len(s) /\ r.y >= 1 /\ r.d <= DaysInMonth(r.y, r.m)
        THEN r ELSE [r EXCEPT !.ok = FALSE]

Pad2(n) == <<DigitChar[(n \div 10) + 1], DigitChar[(n % 10) + 1]>>

Pad4(n) == <<DigitChar[(n \div 1000) + 1], DigitChar[((n \div 100) % 10) + 1]>>
           \o Pad2(n % 100)

RECURSIVE Decimal(_)
Decimal(n) == IF n < 10 THEN <<DigitChar[n + 1]>>
              ELSE Decimal(n \div 10) \o <<DigitChar[(n % 10) + 1]>>

\* strftime("%Y-%m-%d").  The C library decides whether %Y is zero-padded
\* for a year below 1000 (glibc does not pad): pad is that choice.
Strftime(r, pad) ==
    (IF pad THEN Pad4(r.y) ELSE Decimal(r.y)) \o <<"-">> \o Pad2(r.m)
    \o <<"-">> \o Pad2(r.d)

format_date(date_str, pad) ==
    LET r == Strptime(Str(date_str))
    IN  IF r.ok THEN Strftime(r, pad) ELSE Null

\* Of the five date columns of line 52, PODate is the one the model carries.
date_columns == {"PODate"}

FormatRow(r, pad) ==
    [c \in Cols |-> IF c \in date_columns THEN format_date(r[c], pad) ELSE r[c]]

\* ------------------------------------------------------------ input table
Row(id, date, mat, mrn, item, wh, v, vname, bu) ==
    [c \in Cols |->
        CASE c = "ID" -> id
          [] c = "PODate" -> date
          [] c = "MaterialCode" -> mat
          [] c = "MRNNumber" -> mrn
          [] c = "MRNItemNumber" -> item
          [] c = "WarehouseLocation" -> wh
          [] c = "VendorCode" -> v
          [] c = "VendorName" -> vname
          [] c = "BusinessUnitCode" -> bu]

\* The rows input tables are built from: a complete row (with an impossible
\* date); a purchase-order row without MaterialCode that shares its MRN
\* number, warehouse and vendor with the first but differs elsewhere; a
\* material row without ID, warehouse, vendor and business unit; a row that
\* gives MAT1 another MRN number and has no vendor (with a 7-digit date); a
\* row without MRN number and business unit.
RowSpace ==
    { Row(K("PO2"), <<"2","0","2","3","0","1","1","5">>, K("MAT2"), K("M1"), K("1"),
          K("W1"), K("V1"), K("Apex"), K("B2")),
      Row(K("PO1"), <<"2","0","2","3","1","3","3","2">>, Null, K("M1"), K("1"),
          K("W1"), K("V1"), K("Acme"), K("B1")),
      Row(Null, Null, K("MAT1"), K("M1"), K("1"), Null, Null, Null, Null),
      Row(K("PO2"), <<"2","0","2","3","1","1","5">>, K("MAT1"), K("M2"), K("1"),
          K("W2"), Null, Null, K("B1")),
      Row(K("PO1"), <<"2","0","2","4","0","2","2","9">>, K("MAT2"), Null, Null,
          K("W2"), K("V2"), K("Apex"), Null) }

RECURSIVE SeqsUpTo(_, _)
SeqsUpTo(S, n) ==
    IF n = 0 THEN {<<>>}
    ELSE LET shorter == SeqsUpTo(S, n - 1)
         IN  shorter \cup {Append(t, r) : t \in shorter, r \in S}

Tables == SeqsUpTo(RowSpace, MaxRows)

\* ------------------------------------------------------- pandas operations
Project(r, columns) == [c \in columns |-> r[c]]

ProjectAll(table, columns) == [j \in 1..Len(table) |-> Project(table[j], columns)]

\* DataFrame.dropna(subset=...): keep the rows with no missing value there.
DropNa(table, subset) == SelectSeq(table, LAMBDA r : \A c \in subset : r[c] # Null)

\* DataFrame.drop_duplicates(): keep the first occurrence of each row.
RECURSIVE DropDuplicates(_)
DropDuplicates(table) ==
    IF table = <<>> THEN <<>>
    ELSE LET init == DropDuplicates(SubSeq(table, 1, Len(table) - 1))
             last == table[Len(table)]
         IN  IF \E j \in 1..Len(init) : init[j] = last THEN init
             ELSE Append(init, last)

Min(a, b) == IF a < b THEN a ELSE b

\* rows[i:i+chunk_size]
Slice(table, i, n) == SubSeq(table, i + 1, Min(i + n, Len(table)))

\* ------------------------------------------------------------- the schema
Labels == {"PurchaseOrder", "Material", "Warehouse", "Vendor", "BusinessUnit"}

\* The five calls of ingest_label, with the modelled columns of each.
NodeLoads ==
    << [label |-> "PurchaseOrder", id_field |-> "ID",
        columns |-> {"ID", "PODate", "MRNNumber", "MRNItemNumber",
                     "WarehouseLocation", "VendorCode", "BusinessUnitCode"}],
       [label |-> "Material", id_field |-> "MaterialCode",
        columns |-> {"MaterialCode", "MRNNumber", "MRNItemNumber",
                     "WarehouseLocation", "VendorCode"}],
       [label |-> "Warehouse", id_field |-> "WarehouseLocation",
        columns |-> {"WarehouseLocation", "BusinessUnitCode"}],
       [label |-> "Vendor", id_field |-> "VendorCode",
        columns |-> {"VendorCode", "VendorName", "BusinessUnitCode"}],
       [label |-> "BusinessUnit", id_field |-> "BusinessUnitCode",
        columns |-> {"BusinessUnitCode"}] >>

End(label, keys) == [label |-> label, keys |-> keys]

\* The eight calls of create_relationship: the projected columns and the two
\* MATCH patterns of each query.
RelLoads ==
    << [rel_label |-> "ORDERS", columns |-> {"ID", "MRNNumber", "MRNItemNumber"},
        a |-> End("PurchaseOrder", {"ID"}),
        b |-> End("Material", {"MRNNumber", "MRNItemNumber"})],
       [rel_label |-> "DELIVERED_TO", columns |-> {"ID", "WarehouseLocation"},
        a |-> End("PurchaseOrder", {"ID"}),
        b |-> End("Warehouse", {"WarehouseLocation"})],
       [rel_label |-> "PROCURED_FROM", columns |-> {"ID", "VendorCode"},
        a |-> End("PurchaseOrder", {"ID"}),
        b |-> End("Vendor", {"VendorCode"})],
       [rel_label |-> "RAISED_BY", columns |-> {"ID", "BusinessUnitCode"},
        a |-> End("PurchaseOrder", {"ID"}),
        b |-> End("BusinessUnit", {"BusinessUnitCode"})],
       [rel_label |-> "STORED_IN", columns |-> {"MaterialCode", "WarehouseLocation"},
        a |-> End("Material", {"MaterialCode"}),
        b |-> End("Warehouse", {"WarehouseLocation"})],
       [rel_label |-> "SUPPLIED_BY", columns |-> {"MaterialCode", "VendorCode"},
        a |-> End("Material", {"MaterialCode"}),
        b |-> End("Vendor", {"VendorCode"})],
       [rel_label |-> "SUPPLIES_TO", columns |-> {"VendorCode", "BusinessUnitCode"},
        a |-> End("Vendor", {"VendorCode"}),
        b |-> End("BusinessUnit", {"BusinessUnitCode"})],
       [rel_label |-> "BELONGS_TO", columns |-> {"WarehouseLocation", "BusinessUnitCode"},
        a |-> End("Warehouse", {"WarehouseLocation"}),
        b |-> End("BusinessUnit", {"BusinessUnitCode"})] >>

\* ------------------------------------------------------- Cypher semantics
\* A node is [label, props]; an absent property reads as Null.  The nodes
\* are a sequence in creation order, a node's position being its identity.
NoProps == [c \in Cols |-> Null]

\* MATCH (n:label {pattern}): a null in the pattern matches nothing.
MatchNodes(ns, label, pattern) ==
    { n \in 1..Len(ns) :
        /\ ns[n].label = label
        /\ \A c \in DOMAIN pattern : pattern[c] # Null /\ ns[n].props[c] = pattern[c] }

\* Mutant: SET only where the node has no value yet (first write wins).
SetPlus_KeepExisting(props, row) ==
    [c \in Cols |-> IF c \in DOMAIN row /\ props[c] = Null THEN row[c] ELSE props[c]]

\* SET n += row: every key of the map is written, a null value removing the
\* property; properties not in the map are kept.
SetPlus(props, row) == [c \in Cols |-> IF c \in DOMAIN row THEN row[c] ELSE props[c]]

\* Mutant: CREATE in place of MERGE.
MergeNode_AlwaysCreate(ns, label, id_field, row) ==
    Append(ns, [label |-> label, props |-> [c \in Cols |-> IF c \in DOMAIN row THEN row[c] ELSE Null]])

\* MERGE (n:label {id_field: row.id_field}) SET n += row, for one row.
MergeNode(ns, label, id_field, row) ==
    LET hit == MatchNodes(ns, label, Project(row, {id_field}))
        ns1 == IF hit = {}
               THEN Append(ns, [label |-> label,
                                props |-> [NoProps EXCEPT ![id_field] = row[id_field]]])
               ELSE ns
        bound == IF hit = {} THEN {Len(ns1)} ELSE hit
    IN  [n \in 1..Len(ns1) |->
            IF n \in bound THEN [ns1[n] EXCEPT !.props = SetPlus(@, row)] ELSE ns1[n]]

\* UNWIND $batch AS row MERGE ... SET ...: the rows in order.
RECURSIVE NodeQuery(_, _, _, _)
NodeQuery(ns, label, id_field, b) ==
    IF b = <<>> THEN ns
    ELSE NodeQuery(MergeNode(ns, label, id_field, Head(b)), label, id_field, Tail(b))

\* MERGE refuses a null property value: the statement fails.
NodeQueryFails(id_field, b) == \E j \in 1..Len(b) : b[j][id_field] = Null

\* The relationships are a bag of [type, a, b] (a, b node identities): the
\* store can hold several relationships of one type between two nodes.
Edge(type, x, y) == [type |-> type, a |-> x, b |-> y]

\* Mutant: CREATE (a)-[:type]->(b) in place of MERGE.
MergeRelationship_AlwaysCreate(rs, type, as, bs) ==
    rs (+) SetToBag({Edge(type, x, y) : x \in as, y \in bs})

\* MERGE (a)-[:type]->(b) for every matched pair (a, b): created only where
\* no such relationship exists.
MergeRelationship(rs, type, as, bs) ==
    LET es == {Edge(type, x, y) : x \in as, y \in bs}
    IN  rs (+) SetToBag(es \ BagToSet(rs))

\* Mutant: the endpoint patterns without their labels.
RowMatches_AnyLabel(ns, q, row) ==
    [as |-> UNION {MatchNodes(ns, l, Project(row, q.a.keys)) : l \in Labels},
     bs |-> UNION {MatchNodes(ns, l, Project(row, q.b.keys)) : l \in Labels}]

RowMatches(ns, q, row) ==
    [as |-> MatchNodes(ns, q.a.label, Project(row, q.a.keys)),
     bs |-> MatchNodes(ns, q.b.label, Project(row, q.b.keys))]

\* Mutant: MERGE in place of MATCH for the target endpoint, which creates
\* the node that is missing.
RECURSIVE RelQuery_MergeEndpoint(_, _, _, _)
RelQuery_MergeEndpoint(ns, rs, q, b) ==
    IF b = <<>> THEN [nodes |-> ns, rels |-> rs]
    ELSE LET pat == Project(Head(b), q.b.keys)
             ns1 == IF MatchNodes(ns, q.b.label, pat) = {}
                    THEN Append(ns, [label |-> q.b.label, props |-> SetPlus(NoProps, pat)])
                    ELSE ns
             m == RowMatches(ns1, q, Head(b))
         IN  RelQuery_MergeEndpoint(ns1, MergeRelationship(rs, q.rel_label, m.as, m.bs),
                                    q, Tail(b))

\* UNWIND $batch AS row MATCH (a) MATCH (b) MERGE (a)-[:type]->(b): what the
\* statement leaves in the store, as [nodes, rels].  A row with an endpoint
\* that matches nothing yields no pair, and the next row is processed.
RECURSIVE RelQuery(_, _, _, _)
RelQuery(ns, rs, q, b) ==
    IF b = <<>> THEN [nodes |-> ns, rels |-> rs]
    ELSE LET m == RowMatches(ns, q, Head(b))
         IN  RelQuery(ns, MergeRelationship(rs, q.rel_label, m.as, m.bs), q, Tail(b))

CountLabel(ns, label) == Cardinality({n \in 1..Len(ns) : ns[n].label = label})

CountRel(ns, rs, q) ==
    LET es == {e \in BagToSet(rs) :
                 /\ e.type = q.rel_label
                 /\ ns[e.a].label = q.a.label
                 /\ ns[e.b].label = q.b.label}
    IN  BagCardinality([e \in es |-> rs[e]])

\* A chain MATCH ... WITH <earlier counts>, count(x) AS c groups by the
\* earlier counts: once a pattern after the first matches nothing, the
\* grouped aggregation yields no row, result.single() is None and
\* subscripting it raises TypeError.
CountQueryEmpty(counts) == \E j \in 2..Len(counts) : counts[j] = 0

NodeCounts(ns) == [j \in 1..Len(NodeLoads) |-> CountLabel(ns, NodeLoads[j].label)]

RelCounts(ns, rs) == [j \in 1..Len(RelLoads) |-> CountRel(ns, rs, RelLoads[j])]

\* ------------------------------------------------------------------ state
VARIABLES
    csv,          \* the content of the file at csv_path
    chunk_size,   \* the chunk_size of ingest_label and create_relationship
    df,           \* the in-memory table
    pc,           \* the statement of the script to execute next
    k,            \* which call of ingest_label / create_relationship
    rows,         \* rows, of the running loader
    i,            \* the loop variable i of the running loader
    batch,        \* batch, as last assigned
    dropped,      \* dropped, of the last ingest_label
    nodes,        \* the store's nodes
    rels,         \* the store's relationships
    constraints,  \* the labels with a uniqueness constraint in the store
    err,          \* the exception that ended this run, "none" so far
    run,          \* the number of this execution of the script
    log,          \* the transactions this run issued, with their outcome
    loaded,       \* labels of which a whole load from this csv has committed
    same_source   \* every execution so far read this same csv

vars == <<csv, chunk_size, df, pc, k, rows, i, batch, dropped, nodes, rels,
          constraints, err, run, log, loaded, same_source>>

store == <<nodes, rels, constraints>>

Init ==
    /\ csv \in Tables
    /\ chunk_size \in 1..MaxChunk
    /\ df = csv
    /\ pc = "format_dates"
    /\ k = 0
    /\ rows = <<>>
    /\ i = 0
    /\ batch = <<>>
    /\ dropped = 0
    /\ nodes = <<>>
    /\ rels = EmptyBag
    /\ constraints = {}
    /\ err = "none"
    /\ run = 1
    /\ log = <<>>
    /\ loaded = {}
    /\ same_source = TRUE

Tx(kind, what, b, ok) == [kind |-> kind, what |-> what, batch |-> b, ok |-> ok]

\* ---------------------------------------------------------------- actions
\* Step 2 (lines 52-55): every date column through format_date.
FormatDates ==
    /\ pc = "format_dates"
    /\ \E pad \in BOOLEAN : df' = [j \in 1..Len(df) |-> FormatRow(df[j], pad)]
    /\ pc' = "create_constraints"
    /\ UNCHANGED <<csv, chunk_size, k, rows, i, batch, dropped, nodes, rels,
                   constraints, err, run, log, loaded, same_source>>

\* A uniqueness constraint cannot be created over nodes that break it.
BreaksUniqueness(ns, q) ==
    \E n1, n2 \in MatchNodes(ns, q.label, <<>>) :
        /\ n1 # n2
        /\ ns[n1].props[q.id_field] # Null
        /\ ns[n1].props[q.id_field] = ns[n2].props[q.id_field]

\* Mutant: CREATE CONSTRAINT without IF NOT EXISTS.
ConstraintStatements_NoIfNotExists(ns, cs) ==
    IF cs \cap Labels # {}
    THEN [error |-> "EquivalentSchemaRuleAlreadyExists", constraints |-> cs]
    ELSE [error |-> "none", constraints |-> cs \cup Labels]

\* CREATE CONSTRAINT IF NOT EXISTS, five times in one transaction: the
\* outcome as [error, constraints].
ConstraintStatements(ns, cs) ==
    IF \E j \in 1..Len(NodeLoads) :
          NodeLoads[j].label \notin cs /\ BreaksUniqueness(ns, NodeLoads[j])
    THEN [error |-> "ConstraintCreationFailed", constraints |-> cs]
    ELSE [error |-> "none", constraints |-> cs \cup Labels]

\* Step 4 (lines 74-82).
create_constraints ==
    /\ pc = "create_constraints"
    /\ LET r == ConstraintStatements(nodes, constraints)
       IN  /\ constraints' = r.constraints
           /\ err' = r.error
           /\ log' = Append(log, Tx("constraints", "", <<>>, r.error = "none"))
           /\ pc' = IF r.error = "none" THEN "ingest_label" ELSE "aborted"
    /\ k' = 1
    /\ UNCHANGED <<csv, chunk_size, df, rows, i, batch, dropped, nodes, rels,
                   run, loaded, same_source>>

\* Where the script goes when loader k of a stage returns.
AfterLoad(stage, j) ==
    IF stage = "nodes"
    THEN IF j < Len(NodeLoads) THEN [pc |-> "ingest_label", k |-> j + 1]
         ELSE [pc |-> "confirm_nodes", k |-> 0]
    ELSE IF j < Len(RelLoads) THEN [pc |-> "create_relationship", k |-> j + 1]
         ELSE [pc |-> "confirm_rels", k |-> 0]

\* Mutant: no dropna.
NodeRows_NoDropNa(table, q) == ProjectAll(table, q.columns)

\* df[columns].dropna(subset=[id_field]).to_dict(orient="records")
NodeRows(table, q) == DropNa(ProjectAll(table, q.columns), {q.id_field})

\* ingest_label up to its loop (lines 87-103); with no rows the loop body
\* never runs and the call returns.
ingest_label ==
    /\ pc = "ingest_label"
    /\ LET q == NodeLoads[k]
           rs == NodeRows(df, q)
           nxt == AfterLoad("nodes", k)
       IN  /\ rows' = rs
           /\ dropped' = Len(df) - Len(rs)
           /\ i' = 0
           /\ pc' = IF rs = <<>> THEN nxt.pc ELSE "node_batch"
           /\ k' = IF rs = <<>> THEN nxt.k ELSE k
           /\ loaded' = IF rs = <<>> THEN loaded \cup {q.label} ELSE loaded
    /\ UNCHANGED <<csv, chunk_size, df, batch, nodes, rels, constraints, err,
                   run, log, same_source>>

\* One iteration of the loop of ingest_label (lines 103-105): one managed
\* write transaction, committed whole.
ingest_label_batch ==
    /\ pc = "node_batch"
    /\ LET q == NodeLoads[k]
           b == Slice(rows, i, chunk_size)
           bad == NodeQueryFails(q.id_field, b)
           last == i + chunk_size >= Len(rows)
           nxt == AfterLoad("nodes", k)
       IN  /\ batch' = b
           /\ nodes' = IF bad THEN nodes ELSE NodeQuery(nodes, q.label, q.id_field, b)
           /\ err' = IF bad THEN "CypherError" ELSE err
           /\ log' = Append(log, Tx("nodes", q.label, b, ~bad))
           /\ i' = IF bad THEN i ELSE i + chunk_size
           /\ pc' = IF bad THEN "aborted" ELSE IF last THEN nxt.pc ELSE pc
           /\ k' = IF ~bad /\ last THEN nxt.k ELSE k
           /\ loaded' = IF ~bad /\ last THEN loaded \cup {q.label} ELSE loaded
    /\ UNCHANGED <<csv, chunk_size, df, rows, dropped, rels, constraints, run,
                   same_source>>

\* Step 7 (lines 141-156): the node count query and the print of its record.
confirm_nodes ==
    /\ pc = "confirm_nodes"
    /\ log' = Append(log, Tx("count_nodes", "", <<>>, TRUE))
    /\ IF CountQueryEmpty(NodeCounts(nodes))
       THEN /\ err' = "TypeError"
            /\ pc' = "aborted"
            /\ k' = k
       ELSE /\ err' = err
            /\ pc' = "create_relationship"
            /\ k' = 1
    /\ UNCHANGED <<csv, chunk_size, df, rows, i, batch, dropped, nodes, rels,
                   constraints, run, loaded, same_source>>

\* Mutant: dropna over every column of the table, not the projected ones.
RelRows_DropNaAnywhere(table, q) ==
    DropDuplicates(ProjectAll(DropNa(table, Cols), q.columns))

\* df[columns].dropna(subset=columns).drop_duplicates().to_dict("records")
RelRows(table, q) == DropDuplicates(DropNa(ProjectAll(table, q.columns), q.columns))

\* create_relationship up to its loop (lines 161-166).
create_relationship ==
    /\ pc = "create_relationship"
    /\ LET q == RelLoads[k]
           rs == RelRows(df, q)
           nxt == AfterLoad("rels", k)
       IN  /\ rows' = rs
           /\ i' = 0
           /\ pc' = IF rs = <<>> THEN nxt.pc ELSE "rel_batch"
           /\ k' = IF rs = <<>> THEN nxt.k ELSE k
    /\ UNCHANGED <<csv, chunk_size, df, batch, dropped, nodes, rels, constraints,
                   err, run, log, loaded, same_source>>

\* One iteration of the loop of create_relationship (lines 166-168).
create_relationship_batch ==
    /\ pc = "rel_batch"
    /\ LET q == RelLoads[k]
           b == Slice(rows, i, chunk_size)
           last == i + chunk_size >= Len(rows)
           nxt == AfterLoad("rels", k)
           r == RelQuery(nodes, rels, q, b)
       IN  /\ batch' = b
           /\ nodes' = r.nodes
           /\ rels' = r.rels
           /\ log' = Append(log, Tx("rels", q.rel_label, b, TRUE))
           /\ i' = i + chunk_size
           /\ pc' = IF last THEN nxt.pc ELSE pc
           /\ k' = IF last THEN nxt.k ELSE k
    /\ UNCHANGED <<csv, chunk_size, df, rows, dropped, constraints, err, run,
                   loaded, same_source>>

\* Step 9 (lines 231-246) and the end of the script.
confirm_rels ==
    /\ pc = "confirm_rels"
    /\ log' = Append(log, Tx("count_rels", "", <<>>, TRUE))
    /\ IF CountQueryEmpty(RelCounts(nodes, rels))
       THEN /\ err' = "TypeError"
            /\ pc' = "aborted"
       ELSE /\ err' = err
            /\ pc' = "done"
    /\ UNCHANGED <<csv, chunk_size, df, k, rows, i, batch, dropped, nodes, rels,
                   constraints, run, loaded, same_source>>

\* The statements that send a transaction to the store.
TxKind ==
    [create_constraints |-> "constraints", node_batch |-> "nodes",
     confirm_nodes |-> "count_nodes", rel_batch |-> "rels",
     confirm_rels |-> "count_rels"]

\* The label or relationship type of the running loader.
What ==
    IF pc = "node_batch" THEN NodeLoads[k].label
    ELSE IF pc = "rel_batch" THEN RelLoads[k].rel_label ELSE ""

\* Mutant: the failed transaction is not rolled back whole: the first row
\* of a node batch stays written.
transaction_fails_partial ==
    /\ pc \in DOMAIN TxKind
    /\ batch' = IF pc \in {"node_batch", "rel_batch"}
                THEN Slice(rows, i, chunk_size) ELSE batch
    /\ log' = Append(log, Tx(TxKind[pc], What,
                         IF What = "" THEN <<>> ELSE batch', FALSE))
    /\ nodes' = IF pc = "node_batch"
                THEN MergeNode(nodes, NodeLoads[k].label, NodeLoads[k].id_field,
                               rows[i + 1])
                ELSE nodes
    /\ err' = "ServiceUnavailable"
    /\ pc' = "aborted"
    /\ UNCHANGED <<csv, chunk_size, df, k, rows, i, dropped, rels, constraints,
                   run, loaded, same_source>>

\* The store or the connection fails the transaction about to be sent
\* (after whatever retries the driver makes): it is rolled back, the
\* exception propagates, and nothing in the script catches it.
transaction_fails ==
    /\ pc \in DOMAIN TxKind
    /\ batch' = IF pc \in {"node_batch", "rel_batch"}
                THEN Slice(rows, i, chunk_size) ELSE batch
    /\ log' = Append(log, Tx(TxKind[pc], What,
                         IF What = "" THEN <<>> ELSE batch', FALSE))
    /\ err' = "ServiceUnavailable"
    /\ pc' = "aborted"
    /\ UNCHANGED <<csv, chunk_size, df, k, rows, i, dropped, nodes, rels,
                   constraints, run, loaded, same_source>>

\* The script is run again and reads table as the file's content; the store
\* keeps what earlier runs committed.
RunAgain(table) ==
    /\ pc \in {"done", "aborted"}
    /\ run < MaxRuns
    /\ csv' = table
    /\ df' = csv'
    /\ same_source' = (same_source /\ csv' = csv)
    /\ loaded' = IF csv' = csv THEN loaded ELSE {}
    /\ run' = run + 1
    /\ pc' = "format_dates"
    /\ k' = 0
    /\ rows' = <<>>
    /\ i' = 0
    /\ batch' = <<>>
    /\ dropped' = 0
    /\ err' = "none"
    /\ log' = <<>>
    /\ UNCHANGED <<chunk_size, nodes, rels, constraints>>

\* A further run on the same file.
run_again == RunAgain(csv)

\* A further run after the file has changed.
run_again_changed == \E table \in Tables \ {csv} : RunAgain(table)

Next ==
    \/ FormatDates
    \/ create_constraints
    \/ ingest_label
    \/ ingest_label_batch
    \/ confirm_nodes
    \/ create_relationship
    \/ create_relationship_batch
    \/ confirm_rels
    \/ transaction_fails
    \/ run_again

Spec == Init /\ [][Next]_vars

\* The runs of Spec, and runs on a file that changes between runs.
NextAnyInput == Next \/ run_again_changed

SpecAnyInput == Init /\ [][NextAnyInput]_vars

\* ------------------------------------------ format_date on its own inputs
Cat3(ys, ms, ds) == {y \o m \o d : y \in ys, m \in ms, d \in ds}

\* Date cells: a year, a month and a day text of one or two characters, and
\* possibly trailing text; the missing value; text that is not a number.
DateInputs ==
    LET years == {<<"2","0","2","3">>, <<"2","0","2","4">>, <<"0","9","9","9">>,
                  <<"0","0","0","0">>}
        months == {<<"0","1">>, <<"0","2">>, <<"1","1">>, <<"1","3">>, <<"0","0">>,
                   <<"1">>, <<"2">>}
        days == {<<"0","1">>, <<"0","5">>, <<"2","9">>, <<"3","0">>, <<"3","1">>,
                 <<"3","2">>, <<"0","0">>, <<"5">>, <<" ","5">>}
        tails == {<<>>, <<"1">>, <<".","0">>}
    IN  Cat3(Cat3(years, months, days), tails, {<<>>})
        \cup {Null, <<"2","0","2","3","-","0","1","-","1","5">>,
              <<"a","b","c","d","e","f","g","h">>}

DateInit ==
    /\ csv \in {<<Row(K("PO1"), d, K("MAT1"), K("M1"), K("1"), K("W1"), K("V1"),
                      K("Acme"), K("B1"))>> : d \in DateInputs}
    /\ chunk_size = 1
    /\ df = csv
    /\ pc = "format_dates"
    /\ k = 0
    /\ rows = <<>>
    /\ i = 0
    /\ batch = <<>>
    /\ dropped = 0
    /\ nodes = <<>>
    /\ rels = EmptyBag
    /\ constraints = {}
    /\ err = "none"
    /\ run = 1
    /\ log = <<>>
    /\ loaded = {}
    /\ same_source = TRUE

SpecDate == DateInit /\ [][FormatDates]_vars

\* ------------------------------------------------------------------ claims
AllDigits(s) == \A p \in 1..Len(s) : s[p] \in Digit

\* A value that is exactly 8 decimal digits denoting a calendar date.
ValidYYYYMMDD(v) ==
    /\ Len(v) = 8
    /\ AllDigits(v)
    /\ IntOf(v, 1, 4) >= 1
    /\ IntOf(v, 5, 6) \in 1..12
    /\ IntOf(v, 7, 8) \in 1..DaysInMonth(IntOf(v, 1, 4), IntOf(v, 5, 6))

IsoOf(v) == SubSeq(v, 1, 4) \o <<"-">> \o SubSeq(v, 5, 6) \o <<"-">> \o SubSeq(v, 7, 8)

\* C3: format_date maps every value of exactly 8 digits denoting a valid
\* calendar date YYYYMMDD to YYYY-MM-DD, and every other value to null.
C3_FormatDateStrict ==
    pc # "format_dates" =>
        \A j \in 1..Len(df) :
            df[j]["PODate"] = IF ValidYYYYMMDD(csv[j]["PODate"])
                              THEN IsoOf(csv[j]["PODate"]) ELSE Null

\* The distinct non-null key tuples of a relationship's columns in a table.
DistinctKeys(table, columns) ==
    {Project(table[j], columns) :
        j \in {j \in 1..Len(table) : \A c \in columns : table[j][c] # Null}}

TypeCount(rs, type) ==
    LET es == {e \in BagToSet(rs) : e.type = type}
    IN  BagCardinality([e \in es |-> rs[e]])

\* C2 as stated: for all eight relationship types, on a store populated from
\* the same source, the number of relationships of the type never exceeds
\* the number of distinct non-null join-key tuples of the source.
C2_BoundedByKeyPairs ==
    same_source =>
        \A j \in 1..Len(RelLoads) :
            TypeCount(rels, RelLoads[j].rel_label)
                <= Cardinality(DistinctKeys(csv, RelLoads[j].columns))

\* The last row of the table with value v in column c.
LastRowWith(table, c, v) ==
    table[CHOOSE j \in 1..Len(table) :
            /\ table[j][c] = v
            /\ \A j2 \in (j + 1)..Len(table) : table[j2][c] # v]

KeyValues(table, c) == {table[j][c] : j \in 1..Len(table)} \ {Null}

\* The (ID, MaterialCode) pairs the source's ORDERS triples join to through
\* the MRN number and item each material's last row carries.
OrdersJoin(table) ==
    LET q == RelLoads[1]
        joined == {p \in DistinctKeys(table, q.columns)
                            \X KeyValues(table, "MaterialCode") :
                     \A c \in q.b.keys :
                         LastRowWith(table, "MaterialCode", p[2])[c] = p[1][c]}
    IN  {<<p[1]["ID"], p[2]>> : p \in joined}

\* C2 as amended: the bound by distinct key pairs holds for the seven types
\* whose endpoints are both matched by entity key; the ORDERS relationships
\* are bounded by the (ID, MaterialCode) pairs their triples join to.
C2_BoundedAmended ==
    (same_source /\ rels # EmptyBag) =>
        /\ \A j \in 2..Len(RelLoads) :
              TypeCount(rels, RelLoads[j].rel_label)
                  <= Cardinality(DistinctKeys(csv, RelLoads[j].columns))
        /\ TypeCount(rels, "ORDERS") <= Cardinality(OrdersJoin(csv))

\* The relationship loader has run on the same source, and one ORDERS triple
\* has fanned out to several Material nodes.
C2_Witness ==
    /\ same_source
    /\ pc \in {"confirm_rels", "done"}
    /\ TypeCount(rels, "ORDERS") > Cardinality(DistinctKeys(csv, RelLoads[1].columns))
    /\ TypeCount(rels, "DELIVERED_TO") > 0

\* C1: once a label has been loaded whole from this input, no later step,
\* and so no batch of a second run of the node loader on the same input,
\* changes the number of nodes of that label.
C1_Idempotent ==
    [][\A l \in loaded : CountLabel(nodes', l) = CountLabel(nodes, l)]_vars

\* A second run on the same input has committed a PurchaseOrder batch and
\* the PurchaseOrder load is still running.
C1_Witness ==
    /\ run = 2
    /\ "PurchaseOrder" \in loaded
    /\ pc = "node_batch"
    /\ k = 1
    /\ i > 0
    /\ log[Len(log)] = Tx("nodes", "PurchaseOrder", batch, TRUE)

NullCount(table, c) == Cardinality({j \in 1..Len(table) : table[j][c] = Null})

NoNullIn(b, columns) == \A j \in 1..Len(b) : \A c \in columns : b[j][c] # Null

NodeLoadOf(label) == CHOOSE j \in 1..Len(NodeLoads) : NodeLoads[j].label = label

RelLoadOf(type) == CHOOSE j \in 1..Len(RelLoads) : RelLoads[j].rel_label = type

\* C4: no batch sent for an entity type holds a row with a null entity
\* key, no batch sent for a relationship type holds a row with a null join
\* key (so a row with a null ID is in no PurchaseOrder batch and in no batch
\* of the four relationships from PurchaseOrder), and the reported drop
\* count is the number of rows with a null entity key.
C4_NullKeysExcluded ==
    /\ \A j \in 1..Len(log) :
          /\ log[j].kind = "nodes" =>
                NoNullIn(log[j].batch, {NodeLoads[NodeLoadOf(log[j].what)].id_field})
          /\ log[j].kind = "rels" =>
                NoNullIn(log[j].batch, RelLoads[RelLoadOf(log[j].what)].columns)
    /\ pc = "node_batch" => dropped = NullCount(df, NodeLoads[k].id_field)
    /\ (pc = "ingest_label" /\ k > 1) =>
          dropped = NullCount(df, NodeLoads[k - 1].id_field)

\* The table has a row with a null ID and one with an ID; the drop was
\* counted, and PurchaseOrder and DELIVERED_TO batches have been sent.
C4_Witness ==
    /\ NullCount(df, "ID") > 0
    /\ \E j \in 1..Len(log) : log[j].kind = "nodes" /\ log[j].what = "PurchaseOrder"
    /\ \E j \in 1..Len(log) : log[j].kind = "rels" /\ log[j].what = "DELIVERED_TO"

\* The load of NodeLoads[j] has returned in this run and the run goes on.
LoadedNow(j) ==
    \/ pc \in {"ingest_label", "node_batch"} /\ k > j
    \/ pc \in {"confirm_nodes", "create_relationship", "rel_batch", "confirm_rels",
               "done"}

\* C5: after the load of a label, every entity key of the table has exactly
\* one node, whose properties are those of the last row with that key.
C5_LastWriteWins ==
    \A j \in 1..Len(NodeLoads) :
        LoadedNow(j) =>
            LET q == NodeLoads[j]
            IN  \A v \in KeyValues(df, q.id_field) :
                    LET ns == MatchNodes(nodes, q.label, [c \in {q.id_field} |-> v])
                    IN  /\ Cardinality(ns) = 1
                        /\ \A n \in ns :
                              Project(nodes[n].props, q.columns)
                                  = Project(LastRowWith(df, q.id_field, v), q.columns)

\* Two rows share a VendorCode and differ in the other Vendor columns, each
\* in a batch of its own, and the Vendor load has returned.
C5_Witness ==
    /\ LoadedNow(4)
    /\ chunk_size = 1
    /\ Len(df) = 2
    /\ df[1]["VendorCode"] = df[2]["VendorCode"]
    /\ df[1]["VendorCode"] # Null
    /\ df[1]["VendorName"] # df[2]["VendorName"]
    /\ df[1]["BusinessUnitCode"] # df[2]["BusinessUnitCode"]

\* The relationships of the matched pairs of a batch's rows.
BatchEdges(ns, q, b) ==
    UNION {LET m == RowMatches(ns, q, b[j])
           IN  {Edge(q.rel_label, x, y) : x \in m.as, y \in m.bs} : j \in 1..Len(b)}

\* C6: the store never holds two relationships of one type between the
\* same ordered pair of nodes.
C6_NoDuplicateRelationship == \A e \in BagToSet(rels) : CopiesIn(e, rels) = 1

\* A second run on the same source has committed an ORDERS batch with a
\* matched pair, on a store where an earlier run had loaded ORDERS whole (it
\* got as far as DELIVERED_TO, which this run has not reached).
C6_Witness ==
    /\ run = 2
    /\ same_source
    /\ log # <<>>
    /\ log[Len(log)] = Tx("rels", "ORDERS", batch, TRUE)
    /\ BatchEdges(nodes, RelLoads[1], batch) # {}
    /\ TypeCount(rels, "DELIVERED_TO") > 0

NoOpStep == store' = store /\ err' \in {"none", "ServiceUnavailable"}

\* C7: a node batch is sent only after this run's constraint transaction
\* committed all five constraints, a failed constraint transaction is the
\* last thing the run sends, and constraint creation on a store that has the
\* constraints changes nothing in the store and raises no error of its own.
C7_ConstraintsFirst ==
    /\ [](\A j \in 1..Len(log) :
            /\ log[j].kind = "nodes" =>
                  log[1] = Tx("constraints", "", <<>>, TRUE) /\ constraints = Labels
            /\ (log[j].kind = "constraints" /\ ~log[j].ok) => Len(log) = j)
    /\ [][(pc = "create_constraints" /\ constraints = Labels) => NoOpStep]_vars

\* A later run created the constraints again and went on to send nodes.
C7_Witness ==
    /\ run = 2
    /\ Len(log) >= 2
    /\ log[1] = Tx("constraints", "", <<>>, TRUE)
    /\ log[2].kind = "nodes"
    /\ nodes # <<>>

Failed(l) == l # <<>> /\ ~l[Len(l)].ok

FailureStep ==
    /\ (Failed(log') /\ log' # log) => (store' = store /\ pc' = "aborted")
    /\ Failed(log) => (store' = store /\ (log' = log \/ run' = run + 1))

\* C8: the step in which a transaction fails leaves the store as it was
\* (nothing of the failed batch, everything of the batches before it) and
\* ends the run; after it the run sends nothing more.
C8_FailureAborts == [][FailureStep]_vars

\* The second batch of a node load failed after the first had committed.
C8_Witness ==
    /\ pc = "aborted"
    /\ Len(log) >= 3
    /\ log[Len(log)].kind = "nodes"
    /\ ~log[Len(log)].ok
    /\ log[Len(log) - 1].kind = "nodes"
    /\ log[Len(log) - 1].what = log[Len(log)].what
    /\ nodes # <<>>

RelLoaderStep ==
    /\ nodes' = nodes
    /\ (log' # log /\ ~Failed(log')) =>
          /\ err' = err
          /\ BagToSet(rels') = BagToSet(rels) \cup BatchEdges(nodes, RelLoads[k], batch')

\* C9: a relationship batch leaves the nodes as they were, raises nothing,
\* and adds exactly the relationships of its rows' matched pairs: nothing
\* for a row with an unmatched endpoint, and the other rows all the same.
C9_RelLoaderFrame ==
    [][(pc \in {"create_relationship", "rel_batch"}) => RelLoaderStep]_vars

Unmatched(ns, q, row) ==
    LET m == RowMatches(ns, q, row) IN m.as = {} \/ m.bs = {}

\* A committed relationship batch held a row with an unmatched endpoint and
\* a row whose endpoints both matched.
C9_Witness ==
    /\ log # <<>>
    /\ log[Len(log)].kind = "rels"
    /\ log[Len(log)].ok
    /\ LET b == log[Len(log)].batch
           q == RelLoads[RelLoadOf(log[Len(log)].what)]
       IN  /\ \E j \in 1..Len(b) : Unmatched(nodes, q, b[j])
           /\ \E j \in 1..Len(b) : ~Unmatched(nodes, q, b[j])

\* The (source key, target key) pairs of the relationships of a type.
KeyPairs(ns, rs, q) ==
    {Project(ns[e.a].props, q.a.keys) @@ Project(ns[e.b].props, q.b.keys) :
        e \in {e \in BagToSet(rs) : e.type = q.rel_label}}

\* C10: after a complete error-free run on a store that holds only what
\* this source put there, the relationships of each of the seven key-joined
\* types are exactly the distinct pairs with both keys non-null.
C10_ExactKeyPairs ==
    (same_source /\ pc = "done") =>
        \A j \in 2..Len(RelLoads) :
            /\ KeyPairs(nodes, rels, RelLoads[j]) = DistinctKeys(csv, RelLoads[j].columns)
            /\ TypeCount(rels, RelLoads[j].rel_label)
                  = Cardinality(DistinctKeys(csv, RelLoads[j].columns))

\* A first run from the empty store completed with one row to a batch and
\* two distinct pairs of a type.
C10_Witness ==
    /\ run = 1
    /\ pc = "done"
    /\ chunk_size = 1
    /\ Cardinality(DistinctKeys(csv, RelLoads[2].columns)) = 2
====
